---- MODULE Spec2Model ----
(***************************************************************************)
(* A model of src/pubmed_client.py: the retrying request executor          *)
(* (PubMedClient.safe_request), the search operation (search_papers), the  *)
(* detail extractor (fetch_paper_details), the exporter (save_to_csv) and  *)
(* the pipeline of the __main__ block.  The program is single-threaded;    *)
(* the only nondeterminism is what the HTTP transport answers.             *)
(*                                                                         *)
(* Python values are encoded as follows.                                   *)
(*   Optional[str]   a sequence of at most one string: <<>> is None,       *)
(*                   <<"">> the empty string, <<"x">> the string "x".      *)
(*   str (query)     a sequence of one-character strings, so that strip()  *)
(*                   can be computed.                                      *)
(*   dict            a function from its keys; {} is the function with the *)
(*                   empty domain, <<>>.                                   *)
(*   XML             a tree given by the text of the elements each path    *)
(*                   expression matches, in document order.                *)
(***************************************************************************)
EXTENDS Integers, Sequences, FiniteSets, TLC

\* ------------------------------------------------------------- bounds

MaxQueryLen == 2
MaxIds == 2
MaxAuthors == 2
MaxRetries == 4
MaxPapers == 2

\* ---------------------------------------------------- program constants

\* safe_request's default for retries
DefaultRetries == 3

BASE_URL == "https://eutils.ncbi.nlm.nih.gov/entrez/eutils"

search_url == BASE_URL \o "/esearch.fcgi"

fetch_url == BASE_URL \o "/efetch.fcgi"

headers == <<"id", "title", "date", "authors", "affiliations", "corresponding_email">>

\* ------------------------------------------------------ Python helpers

SeqsUpTo(S, n) == UNION {[1..k -> S] : k \in 0..n}

None == <<>>

\* bool(x) of an Optional[str]: None and "" are falsy
truthy(t) == t # None /\ t[1] # ""

\* a or b
py_or(a, b) == IF truthy(a) THEN a ELSE b

\* the characters str.strip() removes
Whitespace == {" ", "\t", "\n"}

RECURSIVE lstrip(_)
lstrip(s) == IF s # <<>> /\ Head(s) \in Whitespace THEN lstrip(Tail(s)) ELSE s

RECURSIVE rstrip(_)
rstrip(s) ==
    IF s # <<>> /\ s[Len(s)] \in Whitespace
    THEN rstrip(SubSeq(s, 1, Len(s) - 1))
    ELSE s

strip_nothing(s) == s

strip(s) == rstrip(lstrip(s))

\* sep.join(xs)
RECURSIVE join(_, _)
join(sep, xs) ==
    IF xs = <<>> THEN ""
    ELSE IF Len(xs) = 1 THEN xs[1]
    ELSE xs[1] \o sep \o join(sep, Tail(xs))

\* d.get(key, default), d[key] given as an Optional
dict_get(value, default) == IF value = <<>> THEN default ELSE value[1]

\* Element.findtext(path): the text of the first element the path matches
\* ("" for an element without text), None when it matches nothing
findtext(matches) == IF matches = <<>> THEN None ELSE <<matches[1]>>

\* Response.raise_for_status() raises HTTPStatusError
raise_for_status(status) == status >= 400

\* ----------------------------------------------------------- transport

Ids == {"1", "2", "3"}

\* an identifier names one record: a list holds it at most once
IdLists == {l \in SeqsUpTo(Ids, MaxIds) : \A i, j \in 1..Len(l) : l[i] = l[j] => i = j}

NoBody == [kind |-> "none"]

\* esearch answers: a JSON object with or without "esearchresult", which is
\* with or without "idlist"
SearchPayloads ==
    {[kind |-> "json", esearchresult |-> <<>>],
     [kind |-> "json", esearchresult |-> <<[idlist |-> <<>>]>>]}
    \cup {[kind |-> "json", esearchresult |-> <<[idlist |-> <<l>>]>>] :
             l \in IdLists}

\* optional element texts
Texts(t) == {<<>>, <<"">>, <<t>>}

AffiliationInfos ==
    {<<>>,
     <<[Affiliation |-> <<"">>, Email |-> <<>>]>>,
     <<[Affiliation |-> <<"Univ A">>, Email |-> <<"x@y.org">>]>>}

\* the ForeName and LastName of an author node
PersonNames ==
    {[ForeName |-> <<>>, LastName |-> <<>>],
     [ForeName |-> <<"Jane">>, LastName |-> <<"Doe">>],
     [ForeName |-> <<"Jane">>, LastName |-> <<>>],
     [ForeName |-> <<"">>, LastName |-> <<"Doe">>]}

AuthorNodes ==
    {[CollectiveName |-> c, LastName |-> n.LastName, ForeName |-> n.ForeName,
      AffiliationInfo |-> a] :
        c \in Texts("WHO Group"), n \in PersonNames, a \in AffiliationInfos}

Jane == [CollectiveName |-> <<>>, LastName |-> <<"Doe">>, ForeName |-> <<"Jane">>,
         AffiliationInfo |-> <<[Affiliation |-> <<"Univ A">>, Email |-> <<"x@y.org">>]>>]

Who == [CollectiveName |-> <<"WHO Group">>, LastName |-> <<>>, ForeName |-> <<>>,
        AffiliationInfo |-> <<>>]

NoMail == [CollectiveName |-> <<"WHO Group">>, LastName |-> <<>>, ForeName |-> <<>>,
           AffiliationInfo |-> <<[Affiliation |-> <<"Univ B">>, Email |-> <<"">>]>>]

\* documents with every shape of author list
AuthorDocs ==
    {[ArticleTitle |-> <<"T">>, Year |-> <<"2020">>, MedlineDate |-> <<>>, Author |-> a] :
        a \in SeqsUpTo(AuthorNodes, MaxAuthors)}

\* documents with every shape of title and date
MetaDocs ==
    {[ArticleTitle |-> t, Year |-> y, MedlineDate |-> m, Author |-> <<>>] :
        t \in Texts("T"), y \in Texts("2020"), m \in Texts("2019 Jan-Feb")}

\* the documents the fetch endpoint serves in a run of the pipeline: one with
\* every field and two authors, one with no field at all, one with a Medline
\* date, a collective author and an Email element without text
RunDocs ==
    {[ArticleTitle |-> <<"T">>, Year |-> <<"2020">>, MedlineDate |-> <<>>,
      Author |-> <<Jane, Who>>],
     [ArticleTitle |-> <<>>, Year |-> <<>>, MedlineDate |-> <<>>, Author |-> <<>>],
     [ArticleTitle |-> <<"T">>, Year |-> <<>>, MedlineDate |-> <<"2019 Jan-Feb">>,
      Author |-> <<NoMail>>]}

\* an efetch answer: root is <<>> when ET.fromstring raises ParseError
Page(doc) == [kind |-> "xml", root |-> <<doc>>]

Malformed == [kind |-> "xml", root |-> <<>>]

RunPages == {Malformed} \cup {Page(d) : d \in RunDocs}

AllPages == RunPages \cup {Page(d) : d \in AuthorDocs \cup MetaDocs}

ErrorStatuses == {404, 500}

\* what one httpx.get may do: raise a transport error (exc), or answer with a
\* status; only a 200 answer carries a body
NoResponse == [exc |-> FALSE, status |-> 0, body |-> NoBody]

Answers(bodies) ==
    {[exc |-> TRUE, status |-> 0, body |-> NoBody]}
    \cup {[exc |-> FALSE, status |-> s, body |-> NoBody] : s \in ErrorStatuses}
    \cup {[exc |-> FALSE, status |-> 200, body |-> b] : b \in bodies}

\* ---------------------------------------------------- detail extraction

\* the texts that path matches below the AffiliationInfo elements, in
\* document order
RECURSIVE info_texts(_, _)
info_texts(infos, field) ==
    IF infos = <<>> THEN <<>>
    ELSE infos[1][field] \o info_texts(Tail(infos), field)

RECURSIVE email_texts(_)
email_texts(authors) ==
    IF authors = <<>> THEN <<>>
    ELSE info_texts(authors[1].AffiliationInfo, "Email") \o email_texts(Tail(authors))

author_name_person_first(author) ==
    LET collective_name == findtext(author.CollectiveName)
        last_name == findtext(author.LastName)
        fore_name == findtext(author.ForeName)
    IN  IF truthy(last_name) /\ truthy(fore_name)
        THEN <<fore_name[1] \o " " \o last_name[1]>>
        ELSE IF truthy(collective_name) THEN <<collective_name[1]>>
             ELSE <<>>

\* what one author node appends to paper_details["authors"]
author_name(author) ==
    LET collective_name == findtext(author.CollectiveName)
        last_name == findtext(author.LastName)
        fore_name == findtext(author.ForeName)
    IN  IF truthy(collective_name) THEN <<collective_name[1]>>
        ELSE IF truthy(last_name) /\ truthy(fore_name)
             THEN <<fore_name[1] \o " " \o last_name[1]>>
             ELSE <<>>

\* what one author node appends to paper_details["affiliations"]
author_affiliation(author) ==
    LET affiliation == findtext(info_texts(author.AffiliationInfo, "Affiliation"))
    IN  IF truthy(affiliation) THEN <<affiliation[1]>> ELSE <<>>

\* the loop over root.findall(".//Author")
RECURSIVE extract_authors(_, _)
extract_authors(paper_details, authors) ==
    IF authors = <<>> THEN paper_details
    ELSE extract_authors(
            [paper_details EXCEPT
                !.authors = @ \o author_name(authors[1]),
                !.affiliations = @ \o author_affiliation(authors[1])],
            Tail(authors))

new_paper_details(id, root) ==
    [id |-> id,
     title |-> findtext(root.ArticleTitle),
     date |-> py_or(findtext(root.Year), findtext(root.MedlineDate)),
     authors |-> <<>>,
     affiliations |-> <<>>,
     corresponding_email |-> findtext(email_texts(root.Author))]

parse_details_sentinel(id, content) ==
    IF content.root = <<>>
    THEN [id |-> id, title |-> None, date |-> None, authors |-> <<>>,
          affiliations |-> <<>>, corresponding_email |-> None]
    ELSE extract_authors(new_paper_details(id, content.root[1]), content.root[1].Author)

\* fetch_paper_details from the response on: parse, then extract
parse_details(id, content) ==
    IF content.root = <<>> THEN <<>>
    ELSE extract_authors(new_paper_details(id, content.root[1]), content.root[1].Author)

\* ---------------------------------------------------------------- export

\* csv writes None as the empty string
csv_cell(value) == IF value = None THEN "" ELSE value[1]

email_cell_none_only(value) == IF value = None THEN "N/A" ELSE value[1]

email_cell(value) == IF truthy(value) THEN value[1] ELSE "N/A"

csv_row(paper) ==
    <<paper.id,
      csv_cell(paper.title),
      csv_cell(paper.date),
      join("; ", paper.authors),
      join("; ", paper.affiliations),
      email_cell(paper.corresponding_email)>>

\* the records save_to_csv is called with directly
ExportRecords ==
    {<<>>} \cup {parse_details(id, Page(d)) : id \in Ids, d \in RunDocs}

\* ----------------------------------------------------------------- state

VARIABLES
    entry,      \* the function the caller invoked
    pc,         \* the statement about to run
    query,      \* args.query
    caller,     \* the function that called safe_request
    url,        \* safe_request's url
    retries,    \* safe_request's retries
    attempt,    \* safe_request's loop variable
    sleeps,     \* the time.sleep calls of this safe_request call
    gets,       \* the httpx.get calls of this safe_request call
    last,       \* what the last httpx.get did
    response,   \* what safe_request returned
    searches,   \* the safe_request calls search_papers made
    paper_ids,  \* what search_papers returned
    paper_id,   \* fetch_paper_details' argument
    fetched,    \* the identifiers fetch_paper_details was called with
    details,    \* what fetch_paper_details returned
    papers,     \* the records collected, save_to_csv's argument
    opened,     \* whether save_to_csv opened the destination
    file,       \* the rows written to the destination
    error       \* the exception that left the entry function ("" for none)

vars == <<entry, pc, query, caller, url, retries, attempt, sleeps, gets, last, response,
          searches, paper_ids, paper_id, fetched, details, papers, opened, file, error>>

Chars == {" ", "a"}

Queries == SeqsUpTo(Chars, MaxQueryLen)

Init ==
    /\ entry \in {"main", "safe_request", "fetch_paper_details", "save_to_csv"}
    /\ pc = IF entry = "main" THEN "search_papers" ELSE entry
    /\ query \in IF entry = "main" THEN Queries ELSE {<<>>}
    /\ caller = ""
    /\ url = IF entry = "safe_request" THEN search_url ELSE ""
    /\ retries \in IF entry = "safe_request" THEN 1..MaxRetries ELSE {DefaultRetries}
    /\ attempt = 0
    /\ sleeps = 0
    /\ gets = 0
    /\ last = NoResponse
    /\ response = NoResponse
    /\ searches = 0
    /\ paper_ids = <<>>
    /\ paper_id \in IF entry = "fetch_paper_details" THEN Ids ELSE {""}
    /\ fetched = <<>>
    /\ details = <<>>
    /\ papers \in IF entry = "save_to_csv" THEN SeqsUpTo(ExportRecords, MaxPapers) ELSE {<<>>}
    /\ opened = FALSE
    /\ file = <<>>
    /\ error = ""

\* ------------------------------------------------------------ safe_request

\* what the endpoint at u may answer with
served(u) ==
    IF u = fetch_url
    THEN IF entry = "main" THEN RunPages ELSE AllPages
    ELSE SearchPayloads

\* the statement safe_request returns to
return_to(from) ==
    IF from = "search_papers" THEN "search_papers_parse"
    ELSE IF from = "fetch_paper_details" THEN "fetch_paper_details_parse"
    ELSE "returned"

\* self.safe_request(u, params) with the default retries and delay
call_safe_request(u, from) ==
    /\ url' = u
    /\ caller' = from
    /\ retries' = DefaultRetries
    /\ attempt' = 0
    /\ sleeps' = 0
    /\ gets' = 0
    /\ last' = NoResponse
    /\ pc' = "safe_request"

\* the except clause catches httpx.HTTPError: a transport error, or the
\* HTTPStatusError of raise_for_status
caught_transport_only(answer) == answer.exc

caught(answer) == answer.exc \/ raise_for_status(answer.status)

\* one iteration of the for loop: httpx.get, raise_for_status, and either
\* return or the except clause (log, sleep)
safe_request_attempt ==
    /\ pc = "safe_request"
    /\ attempt < retries
    /\ \E answer \in Answers(served(url)) :
        /\ gets' = gets + 1
        /\ last' = answer
        /\ IF caught(answer)
           THEN /\ attempt' = attempt + 1
                /\ sleeps' = sleeps + 1
                /\ UNCHANGED <<pc, response>>
           ELSE /\ response' = answer
                /\ pc' = return_to(caller)
                /\ UNCHANGED <<attempt, sleeps>>
    /\ UNCHANGED <<entry, query, caller, url, retries, searches, paper_ids, paper_id,
                   fetched, details, papers, opened, file, error>>

\* the loop is over: raise RuntimeError, which no caller catches
safe_request_raise ==
    /\ pc = "safe_request"
    /\ attempt >= retries
    /\ error' = "RuntimeError"
    /\ pc' = "raised"
    /\ UNCHANGED <<entry, query, caller, url, retries, attempt, sleeps, gets, last, response,
                   searches, paper_ids, paper_id, fetched, details, papers, opened, file>>

\* ----------------------------------------------------------- search_papers

\* data.get("esearchresult", {}).get("idlist", [])
get_idlist_reversed(data) ==
    LET l == dict_get(dict_get(data.esearchresult, [idlist |-> <<>>]).idlist, <<>>)
    IN  [i \in 1..Len(l) |-> l[Len(l) + 1 - i]]

get_idlist(data) == dict_get(dict_get(data.esearchresult, [idlist |-> <<>>]).idlist, <<>>)

\* up to the request: an empty query returns [] at once
search_papers ==
    /\ pc = "search_papers"
    /\ IF strip(query) = <<>>
       THEN /\ paper_ids' = <<>>
            /\ pc' = "main_check"
            /\ UNCHANGED <<caller, url, retries, attempt, sleeps, gets, last, searches>>
       ELSE /\ call_safe_request(search_url, "search_papers")
            /\ searches' = searches + 1
            /\ UNCHANGED paper_ids
    /\ UNCHANGED <<entry, query, response, paper_id, fetched, details, papers, opened,
                   file, error>>

\* from the response on
search_papers_parse ==
    /\ pc = "search_papers_parse"
    /\ paper_ids' = get_idlist(response.body)
    /\ pc' = "main_check"
    /\ UNCHANGED <<entry, query, caller, url, retries, attempt, sleeps, gets, last, response,
                   searches, paper_id, fetched, details, papers, opened, file, error>>

\* ----------------------------------------------------- fetch_paper_details

\* up to the request
fetch_paper_details ==
    /\ pc = "fetch_paper_details"
    /\ fetched' = Append(fetched, paper_id)
    /\ call_safe_request(fetch_url, "fetch_paper_details")
    /\ UNCHANGED <<entry, query, response, searches, paper_ids, paper_id, details, papers,
                   opened, file, error>>

\* from the response on; in the pipeline the list comprehension collects
\* the record
fetch_paper_details_parse ==
    /\ pc = "fetch_paper_details_parse"
    /\ details' = parse_details(paper_id, response.body)
    /\ IF entry = "main"
       THEN papers' = Append(papers, details') /\ pc' = "main_fetch"
       ELSE pc' = "returned" /\ UNCHANGED papers
    /\ UNCHANGED <<entry, query, caller, url, retries, attempt, sleeps, gets, last, response,
                   searches, paper_ids, paper_id, fetched, opened, file, error>>

\* ------------------------------------------------------------------ main

\* if not paper_ids: exit()
main_check ==
    /\ pc = "main_check"
    /\ pc' = IF paper_ids = <<>> THEN "exited" ELSE "main_fetch"
    /\ UNCHANGED <<entry, query, caller, url, retries, attempt, sleeps, gets, last, response,
                   searches, paper_ids, paper_id, fetched, details, papers, opened, file,
                   error>>

\* the identifier the list comprehension takes after n records
next_paper_id_from_end(n) == paper_ids[Len(paper_ids) - n]

next_paper_id(n) == paper_ids[n + 1]

\* one step of [client.fetch_paper_details(paper_id) for paper_id in paper_ids]
main_fetch ==
    /\ pc = "main_fetch"
    /\ IF Len(papers) < Len(paper_ids)
       THEN paper_id' = next_paper_id(Len(papers)) /\ pc' = "fetch_paper_details"
       ELSE pc' = "save_to_csv" /\ UNCHANGED paper_id
    /\ UNCHANGED <<entry, query, caller, url, retries, attempt, sleeps, gets, last, response,
                   searches, paper_ids, fetched, details, papers, opened, file, error>>

\* ------------------------------------------------------------ save_to_csv

\* if not papers: return
nothing_to_save_never(records) == FALSE

nothing_to_save(records) == records = <<>>

\* up to writeheader
save_to_csv ==
    /\ pc = "save_to_csv"
    /\ IF nothing_to_save(papers)
       THEN pc' = "done" /\ UNCHANGED <<opened, file>>
       ELSE opened' = TRUE /\ file' = <<headers>> /\ pc' = "save_rows"
    /\ UNCHANGED <<entry, query, caller, url, retries, attempt, sleeps, gets, last, response,
                   searches, paper_ids, paper_id, fetched, details, papers, error>>

\* paper[key] raises KeyError for a dict without the key
has_key(paper, key) == paper # <<>> /\ key \in DOMAIN paper

\* one iteration of the loop over papers; the with block closes the file on
\* the KeyError too
save_to_csv_row ==
    /\ pc = "save_rows"
    /\ IF Len(file) - 1 < Len(papers)
       THEN LET paper == papers[Len(file)]
            IN  IF has_key(paper, "id")
                THEN file' = Append(file, csv_row(paper)) /\ UNCHANGED <<pc, error>>
                ELSE error' = "KeyError" /\ pc' = "raised" /\ UNCHANGED file
       ELSE pc' = "done" /\ UNCHANGED <<file, error>>
    /\ UNCHANGED <<entry, query, caller, url, retries, attempt, sleeps, gets, last, response,
                   searches, paper_ids, paper_id, fetched, details, papers, opened>>

\* ------------------------------------------------------------------ spec

Next ==
    \/ safe_request_attempt
    \/ safe_request_raise
    \/ search_papers
    \/ search_papers_parse
    \/ fetch_paper_details
    \/ fetch_paper_details_parse
    \/ main_check
    \/ main_fetch
    \/ save_to_csv
    \/ save_to_csv_row

Spec == Init /\ [][Next]_vars

\* ---------------------------------------------------------------- claims

\* safe_request has just returned to its caller
RequestReturned ==
    \/ pc \in {"search_papers_parse", "fetch_paper_details_parse"}
    \/ entry = "safe_request" /\ pc = "returned"

\* fetch_paper_details has just returned: to the caller, or to the list
\* comprehension of the pipeline
FetchReturned ==
    \/ entry = "fetch_paper_details" /\ pc = "returned"
    \/ entry = "main" /\ pc = "main_fetch" /\ papers # <<>>

\* the run is over
Terminated == pc \in {"done", "exited", "returned", "raised"}

IsBlank(q) == \A i \in 1..Len(q) : q[i] \in Whitespace

\* C1: when every attempt fails, safe_request raises after exactly retries
\* GETs and exactly retries - 1 sleeps.
C1_ExhaustionAttemptsAndDelays ==
    error = "RuntimeError" => gets = retries /\ sleeps = retries - 1

\* C3: when the transport fails k < retries times and then succeeds,
\* safe_request makes exactly k + 1 GETs, returns the answer of the last one,
\* and makes no GET after it; an answer with a 4xx/5xx status is a failed
\* attempt like a transport error.
C3_SuccessAfterFailures ==
    /\ RequestReturned =>
        /\ attempt < retries
        /\ gets = attempt + 1
        /\ sleeps = attempt
        /\ response = last
        /\ ~response.exc /\ response.status = 200
    /\ pc = "safe_request" /\ gets > 0 =>
        /\ last.exc \/ last.status \in ErrorStatuses
        /\ gets = attempt
    /\ ~last.exc /\ last.status = 200 => pc # "safe_request" /\ gets = attempt + 1

C3_Witness ==
    /\ entry = "safe_request" /\ pc = "returned"
    /\ retries = 3 /\ attempt = 2 /\ gets = 3
    /\ response.status = 200

\* C4: search_papers with an empty or whitespace-only query returns [] without
\* any request and without raising; with any other query it makes exactly one
\* safe_request call.
C4_BlankQueryNoRequest ==
    entry = "main" =>
        /\ IsBlank(query) =>
            /\ searches = 0 /\ gets = 0 /\ fetched = <<>> /\ error = ""
            /\ pc # "search_papers" => paper_ids = <<>> /\ pc \in {"main_check", "exited"}
        /\ ~IsBlank(query) /\ pc # "search_papers" => searches = 1

C4_Witness ==
    /\ entry = "main" /\ pc = "main_check"
    /\ query = <<" ">> /\ paper_ids = <<>> /\ gets = 0

\* C5: for a non-empty query search_papers returns the identifiers of the
\* payload's idlist in the server's order, and [] when the field is absent or
\* empty.
C5_IdsInServerOrder ==
    entry = "main" /\ pc = "main_check" /\ ~IsBlank(query) =>
        LET r == response.body.esearchresult
        IN  /\ error = ""
            /\ paper_ids = IF r # <<>> /\ r[1].idlist # <<>> THEN r[1].idlist[1] ELSE <<>>

C5_Witness ==
    /\ entry = "main" /\ pc = "main_check"
    /\ paper_ids = <<"2", "1">>
    /\ response.body.esearchresult = <<[idlist |-> << <<"2", "1">> >>]>>

\* C6: detail fetches are issued one identifier at a time in search order, and
\* in a completed run the file is the header row followed by one row per
\* record, the i-th carrying the i-th identifier of the search.
C6_RowsInSearchOrder ==
    entry = "main" =>
        /\ Len(fetched) <= Len(paper_ids)
        /\ \A i \in 1..Len(fetched) : fetched[i] = paper_ids[i]
        /\ Len(fetched) \in {Len(papers), Len(papers) + 1}
        /\ pc = "done" =>
            /\ opened
            /\ file[1] = <<"id", "title", "date", "authors", "affiliations",
                           "corresponding_email">>
            /\ Len(file) = Len(paper_ids) + 1
            /\ Len(papers) = Len(paper_ids)
            /\ \A i \in 1..Len(paper_ids) : file[i + 1][1] = paper_ids[i]

C6_Witness ==
    /\ entry = "main" /\ pc = "done"
    /\ paper_ids = <<"2", "1">>
    /\ Len(file) = 3

\* C7: save_to_csv with no records returns without opening the destination
\* and without raising; a run whose search yields no identifier exits with no
\* detail fetch and no file.
C7_NothingToExportNoFile ==
    /\ entry = "save_to_csv" /\ papers = <<>> =>
        ~opened /\ file = <<>> /\ error = "" /\ pc \in {"save_to_csv", "done"}
    /\ entry = "main" /\ paper_ids = <<>> =>
        /\ fetched = <<>> /\ papers = <<>> /\ ~opened /\ file = <<>>
        /\ pc \in {"search_papers", "safe_request", "search_papers_parse", "raised",
                   "main_check", "exited"}
    /\ entry = "main" /\ pc = "exited" => paper_ids = <<>> /\ error = ""

C7_Witness ==
    entry = "save_to_csv" /\ papers = <<>> /\ pc = "done" /\ ~opened

\* the i-th record handed to save_to_csv has been written as row i + 1
Written == 1..(Len(file) - 1)

\* the elements of xs up to the n-th with "; " between them
RECURSIVE Joined(_, _)
Joined(xs, n) ==
    IF n = 0 THEN ""
    ELSE IF n = 1 THEN xs[1]
    ELSE Joined(xs, n - 1) \o "; " \o xs[n]

\* the cells of a row other than the email: an absent title or date is an
\* empty cell, the lists are joined with "; "
PlainCells(paper, row) ==
    /\ Len(row) = 6
    /\ row[1] = paper.id
    /\ row[2] = (IF paper.title = None THEN "" ELSE paper.title[1])
    /\ row[3] = (IF paper.date = None THEN "" ELSE paper.date[1])
    /\ row[4] = Joined(paper.authors, Len(paper.authors))
    /\ row[5] = Joined(paper.affiliations, Len(paper.affiliations))

\* C8, as stated: the email cell is N/A exactly when the record's email is
\* absent and is the record's email otherwise; an absent title or date is an
\* empty cell; authors and affiliations are joined with "; ".
C8_EmailPlaceholderOnlyWhenAbsent ==
    \A i \in Written :
        LET paper == papers[i]
            row == file[i + 1]
        IN  /\ PlainCells(paper, row)
            /\ row[6] = "N/A" <=> paper.corresponding_email = None
            /\ paper.corresponding_email # None => row[6] = paper.corresponding_email[1]

\* C8, amended: the email cell is N/A when the record's email is absent or
\* the empty string and is the record's email otherwise; an absent title or
\* date is an empty cell; authors and affiliations are joined with "; ".
C8_EmailPlaceholderWhenAbsentOrEmpty ==
    \A i \in Written :
        LET paper == papers[i]
            row == file[i + 1]
        IN  /\ PlainCells(paper, row)
            /\ row[6] = IF paper.corresponding_email \in {None, <<"">>}
                        THEN "N/A"
                        ELSE paper.corresponding_email[1]

C8_Witness ==
    \E i \in Written :
        /\ papers[i].corresponding_email = <<"">>
        /\ papers[i].title = <<"T">>
        /\ file[i + 1][6] = "N/A"
        /\ file[i + 1][4] = "WHO Group"

\* C9: when the response does not parse as XML fetch_paper_details returns
\* the empty record and does not raise; when it parses, the record has the
\* six fields and the requested identifier as id.
C9_MalformedGivesEmptyRecord ==
    /\ FetchReturned =>
        /\ error = ""
        /\ IF response.body.root = <<>>
           THEN details = <<>>
           ELSE /\ details # <<>>
                /\ DOMAIN details = {"id", "title", "date", "authors", "affiliations",
                                     "corresponding_email"}
                /\ details.id = paper_id
        /\ entry = "main" => papers[Len(papers)] = details
    /\ entry = "fetch_paper_details" /\ pc = "raised" =>
        error = "RuntimeError" /\ response = NoResponse

C9_Witness ==
    /\ entry = "fetch_paper_details" /\ pc = "returned"
    /\ response.body = Malformed
    /\ details = <<>>

\* the author nodes of the document fetch_paper_details has parsed
Nodes == response.body.root[1].Author

\* the first affiliation element of an author node, if any
FirstAffiliation(node) ==
    LET with == {k \in 1..Len(node.AffiliationInfo) :
                    node.AffiliationInfo[k].Affiliation # <<>>}
    IN  IF with = {} THEN <<>>
        ELSE node.AffiliationInfo[CHOOSE k \in with : \A j \in with : k <= j].Affiliation

\* what a node contributes when "has a field" means the element is there
NameIfPresent(node) ==
    IF node.CollectiveName # <<>> THEN node.CollectiveName
    ELSE IF node.ForeName # <<>> /\ node.LastName # <<>>
         THEN <<node.ForeName[1] \o " " \o node.LastName[1]>>
         ELSE <<>>

\* what a node contributes when "has a field" means the element has text
NameIfNonEmpty(node) ==
    IF node.CollectiveName \notin {<<>>, <<"">>} THEN node.CollectiveName
    ELSE IF node.ForeName \notin {<<>>, <<"">>} /\ node.LastName \notin {<<>>, <<"">>}
         THEN <<node.ForeName[1] \o " " \o node.LastName[1]>>
         ELSE <<>>

AffiliationIfNonEmpty(node) ==
    IF FirstAffiliation(node) = <<"">> THEN <<>> ELSE FirstAffiliation(node)

\* the contributions of the first n nodes, in document order
RECURSIVE NamesPresent(_)
NamesPresent(n) == IF n = 0 THEN <<>> ELSE NamesPresent(n - 1) \o NameIfPresent(Nodes[n])

RECURSIVE AffiliationsPresent(_)
AffiliationsPresent(n) ==
    IF n = 0 THEN <<>> ELSE AffiliationsPresent(n - 1) \o FirstAffiliation(Nodes[n])

RECURSIVE NamesNonEmpty(_)
NamesNonEmpty(n) == IF n = 0 THEN <<>> ELSE NamesNonEmpty(n - 1) \o NameIfNonEmpty(Nodes[n])

RECURSIVE AffiliationsNonEmpty(_)
AffiliationsNonEmpty(n) ==
    IF n = 0 THEN <<>> ELSE AffiliationsNonEmpty(n - 1) \o AffiliationIfNonEmpty(Nodes[n])

\* C10, as stated: in document order, a node with a collective name
\* contributes it, otherwise a node with fore-name and last-name contributes
\* "<fore-name> <last-name>", otherwise nothing; each node appends its
\* affiliation iff it has one; neither list is longer than the node list.
C10_AuthorsByPresence ==
    FetchReturned /\ response.body.root # <<>> =>
        /\ details.authors = NamesPresent(Len(Nodes))
        /\ details.affiliations = AffiliationsPresent(Len(Nodes))
        /\ Len(details.authors) <= Len(Nodes)
        /\ Len(details.affiliations) <= Len(Nodes)

\* C10, amended: in document order, a node with a non-empty collective name
\* contributes it, otherwise a node with non-empty fore-name and last-name
\* contributes "<fore-name> <last-name>", otherwise nothing; each node appends
\* its first affiliation iff that is non-empty; neither list is longer than
\* the node list.
C10_AuthorsByNonEmptyText ==
    FetchReturned /\ response.body.root # <<>> =>
        /\ details.authors = NamesNonEmpty(Len(Nodes))
        /\ details.affiliations = AffiliationsNonEmpty(Len(Nodes))
        /\ Len(details.authors) <= Len(Nodes)
        /\ Len(details.affiliations) <= Len(Nodes)

\* a collective name wins over fore-name and last-name, and the only
\* affiliation belongs to a node that contributes no author
C10_Witness ==
    /\ entry = "fetch_paper_details" /\ pc = "returned"
    /\ response.body.root # <<>>
    /\ Len(Nodes) = 2
    /\ Nodes[1].CollectiveName = <<"WHO Group">> /\ Nodes[1].ForeName = <<"Jane">>
    /\ Nodes[1].LastName = <<"Doe">> /\ Nodes[1].AffiliationInfo = <<>>
    /\ Nodes[2].CollectiveName = <<>> /\ Nodes[2].ForeName = <<>>
    /\ Nodes[2].AffiliationInfo # <<>>
    /\ details.authors = <<"WHO Group">>
    /\ details.affiliations = <<"Univ A">>

\* the detail fetch of the i-th identifier failed: its response did not
\* parse, or its safe_request call ran out of attempts
FetchFailed(i) ==
    \/ i <= Len(papers) /\ papers[i] = <<>>
    \/ i = Len(papers) + 1 /\ error = "RuntimeError" /\ url = fetch_url

\* C2: when the search returns at least two identifiers and the detail fetch
\* of one of them fails, the run still reaches the export and writes a row for
\* each of the others.
C2_BadIdentifierIsolated ==
    /\ entry = "main" /\ Terminated /\ Len(paper_ids) >= 2
    /\ Cardinality({i \in 1..Len(paper_ids) : FetchFailed(i)}) = 1
    => /\ opened
       /\ \A i \in 1..Len(paper_ids) :
            ~FetchFailed(i) => \E j \in 2..Len(file) : file[j][1] = paper_ids[i]

====
